---- MODULE Spec2Model ----
(***************************************************************************)
(* gpt-commit: the diff segmenter (parse_diff, assemble_diffs) and the     *)
(* orchestration of main (get_diff, summarize_changes, the fan-out over    *)
(* summarize_diff, generate_commit_message, generate_commit_body, commit). *)
(*                                                                         *)
(* A text is a run-length encoded Python str: a sequence of runs           *)
(* <<char, count>> with count >= 1 in which adjacent runs carry different  *)
(* characters, so that two texts are equal exactly when the strings are.   *)
(* len(), +, slicing, str.split, str.strip and str.join are computed on    *)
(* that representation.                                                    *)
(***************************************************************************)
EXTENDS Integers, Sequences, FiniteSets, Bags, TLC

(* ------------------------------ bounds -------------------------------- *)

\* the most file sections in a staged diff
MaxFiles == 2

\* the most hunks in a staged diff, over all its file sections
MaxHunks == 3

(* ------------------------------ strings ------------------------------- *)

Empty == <<>>

NL == << <<"\n", 1>> >>

Whitespace == {"\n", " "}

Last(s) == s[Len(s)]

Front(s) == SubSeq(s, 1, Len(s) - 1)

Range(s) == {s[i] : i \in DOMAIN s}

\* s + t
Cat(s, t) ==
    IF s = <<>> THEN t
    ELSE IF t = <<>> THEN s
    ELSE IF Last(s)[1] = Head(t)[1]
         THEN Front(s) \o << <<Head(t)[1], Last(s)[2] + Head(t)[2]>> >> \o Tail(t)
         ELSE s \o t

RECURSIVE CatAll(_)
\* "".join(texts)
CatAll(texts) ==
    IF texts = <<>> THEN Empty ELSE Cat(Head(texts), CatAll(Tail(texts)))

RECURSIVE TLen(_)
\* len(s)
TLen(s) == IF s = <<>> THEN 0 ELSE Head(s)[2] + TLen(Tail(s))

RECURSIVE Take(_, _)
\* s[:n]
Take(s, n) ==
    IF n <= 0 \/ s = <<>> THEN <<>>
    ELSE IF Head(s)[2] <= n THEN <<Head(s)>> \o Take(Tail(s), n - Head(s)[2])
    ELSE << <<Head(s)[1], n>> >>

\* s.startswith(p)
StartsWith(s, p) == TLen(p) <= TLen(s) /\ Take(s, TLen(p)) = p

RECURSIVE LStrip(_)
LStrip(s) ==
    IF s # <<>> /\ Head(s)[1] \in Whitespace THEN LStrip(Tail(s)) ELSE s

RECURSIVE RStrip(_)
RStrip(s) ==
    IF s # <<>> /\ Last(s)[1] \in Whitespace THEN RStrip(Front(s)) ELSE s

\* s.strip()
Strip(s) == RStrip(LStrip(s))

Reverse(s) == [i \in 1..Len(s) |-> s[Len(s) + 1 - i]]

\* the separator sep (at least two runs) matches s with its first character
\* at the end of run k of s
MatchAt(s, sep, k) ==
    LET n == Len(sep) IN
    /\ k + n - 1 <= Len(s)
    /\ s[k][1] = sep[1][1] /\ s[k][2] >= sep[1][2]
    /\ \A j \in 2..(n - 1) : s[k + j - 1] = sep[j]
    /\ s[k + n - 1][1] = sep[n][1] /\ s[k + n - 1][2] >= sep[n][2]

\* the run of s where the leftmost occurrence of sep starts, 0 when none
FindFirst(s, sep) ==
    LET hits == {k \in 1..Len(s) : MatchAt(s, sep, k)} IN
    IF hits = {} THEN 0 ELSE CHOOSE k \in hits : \A m \in hits : k <= m

\* what precedes the occurrence of sep at run k
Before(s, sep, k) ==
    SubSeq(s, 1, k - 1)
        \o (IF s[k][2] > sep[1][2] THEN << <<s[k][1], s[k][2] - sep[1][2]>> >> ELSE <<>>)

\* what follows the occurrence of sep at run k
After(s, sep, k) ==
    LET e == k + Len(sep) - 1 IN
    (IF s[e][2] > Last(sep)[2] THEN << <<s[e][1], s[e][2] - Last(sep)[2]>> >> ELSE <<>>)
        \o SubSeq(s, e + 1, Len(s))

RECURSIVE Split(_, _)
\* s.split(sep): leftmost, non-overlapping occurrences
Split(s, sep) ==
    LET k == FindFirst(s, sep) IN
    IF k = 0 THEN <<s>>
    ELSE <<Before(s, sep, k)>> \o Split(After(s, sep, k), sep)

RECURSIVE Join(_, _)
\* sep.join(texts)
Join(sep, texts) ==
    IF texts = <<>> THEN Empty
    ELSE IF Len(texts) = 1 THEN texts[1]
    ELSE Cat(Cat(texts[1], sep), Join(sep, Tail(texts)))

RECURSIVE Chars(_)
\* list(s): the characters of s, each a one-character text
Chars(s) ==
    IF s = <<>> THEN <<>>
    ELSE IF Head(s)[2] = 1 THEN << <<Head(s)>> >> \o Chars(Tail(s))
    ELSE << << <<Head(s)[1], 1>> >> >> \o Chars(<< <<Head(s)[1], Head(s)[2] - 1>> >> \o Tail(s))

(* ----------------------------- constants ------------------------------ *)

PROMPT_CUTOFF == 10000

DIFF_PROMPT_LEN == 399

COMMIT_TITLE_PROMPT_LEN == 370

COMMIT_BODY_PROMPT_LEN == 410

\* the prompts: their lengths are the source's, their characters stand for
\* prose that holds no diff marker
DIFF_PROMPT == << <<"D", DIFF_PROMPT_LEN>> >>

COMMIT_TITLE_PROMPT == << <<"T", COMMIT_TITLE_PROMPT_LEN>> >>

COMMIT_BODY_PROMPT == << <<"B", COMMIT_BODY_PROMPT_LEN>> >>

\* "\ndiff"
FILE_MARKER == << <<"\n", 1>>, <<"d", 1>>, <<"i", 1>>, <<"f", 2>> >>

\* "\n@@"
HUNK_MARKER == << <<"\n", 1>>, <<"@", 2>> >>

(* ----------------------------- parse_diff ----------------------------- *)

\* parse_diff with the reversed() of line 93 left out
parse_diff_unreversed(diff) ==
    LET split == Split(diff, FILE_MARKER)
        file_diffs == <<split[1]>>
            \o [i \in 1..(Len(split) - 1) |-> Cat(FILE_MARKER, split[i + 1])]
    IN  [f \in 1..Len(file_diffs) |->
            LET parts == Split(file_diffs[f], HUNK_MARKER) IN
            [head   |-> parts[1],
             chunks |-> [j \in 1..(Len(parts) - 1) |-> Cat(HUNK_MARKER, parts[j + 1])]]]

parse_diff(diff) ==
    LET split == Split(diff, FILE_MARKER)
        file_diffs == <<split[1]>>
            \o [i \in 1..(Len(split) - 1) |-> Cat(FILE_MARKER, split[i + 1])]
    IN  [f \in 1..Len(file_diffs) |->
            LET parts == Split(file_diffs[f], HUNK_MARKER) IN
            [head   |-> parts[1],
             chunks |-> Reverse([j \in 1..(Len(parts) - 1) |->
                                    Cat(HUNK_MARKER, parts[j + 1])])]]

(* ---------------------------- assemble_diffs -------------------------- *)

\* add_chunk overwriting the last block where the source appends a new one
add_chunk_overwrite(blocks, chunk, limit) ==
    IF TLen(Last(blocks)) + TLen(chunk) <= limit
    THEN [blocks |-> [blocks EXCEPT ![Len(blocks)] = Cat(Cat(@, NL), chunk)], ok |-> TRUE]
    ELSE [blocks |-> [blocks EXCEPT ![Len(blocks)] = chunk], ok |-> FALSE]

\* add_chunk: the list after the call and the value returned
add_chunk(blocks, chunk, limit) ==
    IF TLen(Last(blocks)) + TLen(chunk) <= limit
    THEN [blocks |-> [blocks EXCEPT ![Len(blocks)] = Cat(Cat(@, NL), chunk)], ok |-> TRUE]
    ELSE [blocks |-> Append(blocks, chunk), ok |-> FALSE]

\* line 117 with the head left off the freshly started block
reprefix_none(head, block) == block

\* line 117: the head put in front of the freshly started block
reprefix(head, block) == Cat(head, block)

(* ------------------------------- inputs ------------------------------- *)

\* "diff"
DIFF_WORD == << <<"d", 1>>, <<"i", 1>>, <<"f", 2>> >>

\* what follows "diff" in the head of the i-th file section: every section names
\* its own file; the first head is one line and 100 characters long, the
\* others are two lines
HeadFill(i) ==
    IF i = 1 THEN << <<"h", 96>> >>
    ELSE << <<"g", 20 + i>>, <<"\n", 1>>, <<"g", 30>> >>

\* what follows "\n@@" in a hunk: three hunks of 4,000 characters that differ,
\* one of them of two lines, and one of 9,950 whose last line is empty
SegBodies == { << <<"x", 3997>> >>,
               << <<"y", 3997>> >>,
               << <<"z", 1996>>, <<"\n", 1>>, <<"z", 2000>> >>,
               << <<"x", 9946>>, <<"\n", 1>> >> }

RunBodies == { << <<"x", 3997>> >>, << <<"y", 9947>> >> }

\* the cutoffs assemble_diffs is applied with
Cutoffs == {PROMPT_CUTOFF, 4100}

SeqsUpTo(S, n) == UNION {[1..k -> S] : k \in 0..n}

RECURSIVE HunkLists(_, _, _)
\* for n file sections, the hunks of each, at most budget hunks in all
HunkLists(bodies, n, budget) ==
    IF n = 0 THEN {<<>>}
    ELSE UNION { { <<hs>> \o rest : rest \in HunkLists(bodies, n - 1, budget - Len(hs)) } :
                 hs \in SeqsUpTo(bodies, budget) }

FileLists(bodies, n, budget) ==
    { [i \in 1..n |-> [fill |-> HeadFill(i), hunks |-> hl[i]]] :
      hl \in HunkLists(bodies, n, budget) }

\* one file section as git prints it
FileText(f) ==
    Cat(Cat(DIFF_WORD, f.fill),
        CatAll([j \in 1..Len(f.hunks) |-> Cat(HUNK_MARKER, f.hunks[j])]))

\* git's standard output for a list of file sections: one per line group,
\* newline-terminated
GitOutput(files) ==
    Cat(Join(NL, [i \in 1..Len(files) |-> FileText(files[i])]), NL)

GitOutputs(bodies) ==
    UNION { {GitOutput(fl) : fl \in FileLists(bodies, n, MaxHunks)} :
            n \in 1..MaxFiles }

(* -------------------------------- state ------------------------------- *)

VARIABLES
    pc,                    \* where main (or the segmenter) stands
    dry_run,               \* args.dry_run
    diff,                  \* the text get_diff returned
    cutoff,                \* assemble_diffs' cutoff argument
    parsed_diffs,          \* parse_diff's list; chunks shrink as they are popped
    fi,                    \* the position of `for head, chunks in parsed_diffs`
    assembled_diffs,       \* the list of blocks assemble_diffs builds
    tasks,                 \* per block: the state of its summarize_diff coroutine
    results,               \* asyncio.gather's result list
    raised,                \* the exception gather will raise, "none" when none
    code_change_summaries, \* main's local
    commit_message,        \* main's local
    commit_body,           \* main's local
    requests,              \* every text submitted to client.chat.completions.create
    output,                \* what main printed or committed
    escaped,               \* the exception that left main, "none" when none
    caught,                \* main's except clause ran
    served,                \* per block: the text its summarize_diff returned
    out_of_order           \* a block's call completed before an earlier block's

vars == <<pc, dry_run, diff, cutoff, parsed_diffs, fi, assembled_diffs, tasks,
          results, raised, code_change_summaries, commit_message, commit_body,
          requests, output, escaped, caught, served, out_of_order>>

packer_vars == <<parsed_diffs, fi, assembled_diffs>>

fanout_vars == <<tasks, results, raised, served, out_of_order>>

main_vars == <<code_change_summaries, commit_message, commit_body, output,
               escaped, caught>>

\* a local that no assignment has reached yet
Unbound == [bound |-> FALSE, kind |-> "none", text |-> Empty, list |-> <<>>]

StrValue(t) == [bound |-> TRUE, kind |-> "str", text |-> t, list |-> <<>>]

ListValue(l) == [bound |-> TRUE, kind |-> "list", text |-> Empty, list |-> l]

InitLocals ==
    /\ parsed_diffs = <<>>
    /\ fi = 0
    /\ assembled_diffs = <<>>
    /\ tasks = <<>>
    /\ results = <<>>
    /\ raised = "none"
    /\ code_change_summaries = Unbound
    /\ commit_message = Unbound
    /\ commit_body = Unbound
    /\ requests = <<>>
    /\ output = [kind |-> "none", message |-> Empty, body |-> Empty]
    /\ escaped = "none"
    /\ caught = FALSE
    /\ served = <<>>
    /\ out_of_order = FALSE

(* ----------------------- the segmenter, step by step ------------------ *)

\* line 209: parse_diff(diff), and line 100
ParseDiff ==
    /\ pc = "parse"
    /\ parsed_diffs' = parse_diff(diff)
    /\ assembled_diffs' = <<Empty>>
    /\ fi' = 1
    /\ pc' = "file"
    /\ UNCHANGED <<dry_run, diff, cutoff, requests>>
    /\ UNCHANGED fanout_vars
    /\ UNCHANGED main_vars

\* lines 110-112: a file section without hunks
AddHead ==
    /\ pc = "file"
    /\ fi <= Len(parsed_diffs)
    /\ parsed_diffs[fi].chunks = <<>>
    /\ assembled_diffs' = add_chunk(assembled_diffs, parsed_diffs[fi].head, cutoff).blocks
    /\ pc' = "hunks"
    /\ UNCHANGED <<dry_run, diff, cutoff, requests, parsed_diffs, fi>>
    /\ UNCHANGED fanout_vars
    /\ UNCHANGED main_vars

\* lines 110-114: head + chunks.pop() as one unit
AddHeadAndChunk ==
    /\ pc = "file"
    /\ fi <= Len(parsed_diffs)
    /\ parsed_diffs[fi].chunks # <<>>
    /\ LET head == parsed_diffs[fi].head
           chunks == parsed_diffs[fi].chunks
       IN  /\ assembled_diffs' =
                 add_chunk(assembled_diffs, Cat(head, Last(chunks)), cutoff).blocks
           /\ parsed_diffs' = [parsed_diffs EXCEPT ![fi].chunks = Front(chunks)]
    /\ pc' = "hunks"
    /\ UNCHANGED <<dry_run, diff, cutoff, requests, fi>>
    /\ UNCHANGED fanout_vars
    /\ UNCHANGED main_vars

\* lines 115-117: one turn of `while chunks`
AddChunk ==
    /\ pc = "hunks"
    /\ parsed_diffs[fi].chunks # <<>>
    /\ LET head == parsed_diffs[fi].head
           chunks == parsed_diffs[fi].chunks
           r == add_chunk(assembled_diffs, Last(chunks), cutoff)
       IN  /\ assembled_diffs' =
                 IF r.ok THEN r.blocks
                 ELSE [r.blocks EXCEPT ![Len(r.blocks)] = reprefix(head, @)]
           /\ parsed_diffs' = [parsed_diffs EXCEPT ![fi].chunks = Front(chunks)]
    /\ UNCHANGED <<pc, dry_run, diff, cutoff, requests, fi>>
    /\ UNCHANGED fanout_vars
    /\ UNCHANGED main_vars

\* line 115 false: on to the next file section
NextFile ==
    /\ pc = "hunks"
    /\ parsed_diffs[fi].chunks = <<>>
    /\ fi' = fi + 1
    /\ pc' = "file"
    /\ UNCHANGED <<dry_run, diff, cutoff, requests, parsed_diffs, assembled_diffs>>
    /\ UNCHANGED fanout_vars
    /\ UNCHANGED main_vars

\* line 118
ReturnBlocks ==
    /\ pc = "file"
    /\ fi > Len(parsed_diffs)
    /\ pc' = "packed"
    /\ UNCHANGED <<dry_run, diff, cutoff, requests>>
    /\ UNCHANGED packer_vars
    /\ UNCHANGED fanout_vars
    /\ UNCHANGED main_vars

\* the texts get_diff can hand to the segmenter
SegmenterDiffs == {Strip(o) : o \in GitOutputs(SegBodies)}

SegmenterInit ==
    /\ pc = "parse"
    /\ dry_run = TRUE
    /\ diff \in SegmenterDiffs
    /\ cutoff \in Cutoffs
    /\ InitLocals

SegmenterNext ==
    \/ ParseDiff
    \/ AddHead
    \/ AddHeadAndChunk
    \/ AddChunk
    \/ NextFile
    \/ ReturnBlocks

\* assemble_diffs(parse_diff(diff), cutoff) over the diffs and cutoffs above
SpecSegmenter == SegmenterInit /\ [][SegmenterNext]_vars

(* ------------------------- the orchestration -------------------------- *)

\* a string literal: one run per character, equal neighbours merged
Lit(cs) == CatAll([i \in DOMAIN cs |-> << <<cs[i], 1>> >>])

\* "Fix whitespace"
FIX_WHITESPACE ==
    Lit(<<"F", "i", "x", " ", "w", "h", "i", "t", "e", "s", "p", "a", "c", "e">>)

BINARY_MESSAGE_LEN == 111

\* "# gpt-commit does not support binary files. Please enter ..."
BINARY_MESSAGE == << <<"#", BINARY_MESSAGE_LEN>> >>

\* "Type: "
TYPE_LABEL == Lit(<<"T", "y", "p", "e", ":", " ">>)

\* "Code change summaries: "
SUMMARIES_LABEL ==
    Lit(<<"C", "o", "d", "e", " ", "c", "h", "a", "n", "g", "e", " ",
          "s", "u", "m", "m", "a", "r", "i", "e", "s", ":", " ">>)

\* what git prints in the runs of main: nothing when nothing is staged, or
\* one file section of at most MaxHunks hunks
RunOutputs ==
    {Empty} \cup {GitOutput(fl) : fl \in FileLists(RunBodies, 1, MaxHunks)}

\* message contents the completion service can answer with: blank, one line,
\* a title and a body
Contents == { << <<" ", 1>>, <<"\n", 1>> >>,
              << <<"o", 1>>, <<"k", 1>>, <<"\n", 1>> >>,
              << <<"f", 1>>, <<"i", 1>>, <<"x", 1>>, <<"\n", 2>>, <<"b", 1>> >> }

\* what an awaited completion call can raise
CallErrors == {"APIError", "UnicodeDecodeError"}

\* get_text: the content, stripped
get_text(content) == Strip(content)

\* line 142: the text complete submits for a prompt
complete_prompt(prompt) == Take(prompt, PROMPT_CUTOFF + 100)

RECURSIVE Escape(_)
\* repr's escaping of a str without quotes or backslashes: "\n" becomes \ n
Escape(t) ==
    IF t = <<>> THEN <<>>
    ELSE IF Head(t)[1] = "\n"
         THEN Cat(CatAll([i \in 1..Head(t)[2] |-> << <<"\\", 1>>, <<"n", 1>> >>]),
                  Escape(Tail(t)))
         ELSE Cat(<<Head(t)>>, Escape(Tail(t)))

\* repr(t)
Repr(t) == CatAll(<<Lit(<<"'">>), Escape(t), Lit(<<"'">>)>>)

\* str(v) as an f-string formats it: a str as it is, a list by its repr
PyStr(v) ==
    IF v.kind = "str" THEN v.text
    ELSE CatAll(<<Lit(<<"[">>),
                  Join(Lit(<<",", " ">>), [i \in DOMAIN v.list |-> Repr(v.list[i])]),
                  Lit(<<"]">>)>>)

\* "\n".join(v): over the items of a list, over the characters of a str
JoinLines(v) ==
    IF v.kind = "str" THEN Join(NL, Chars(v.text)) ELSE Join(NL, v.list)

\* bool(v)
Truthy(v) == IF v.kind = "str" THEN v.text # Empty ELSE v.list # <<>>

\* lines 197: the prompt of the title request
TitlePrompt(summaries) ==
    CatAll(<<COMMIT_TITLE_PROMPT, NL, NL, summaries, NL, NL>>)

\* lines 180-184: the prompt of the body request
BodyPrompt(type_and_description, summaries) ==
    CatAll(<<COMMIT_BODY_PROMPT, NL, NL,
             TYPE_LABEL, type_and_description, NL,
             SUMMARIES_LABEL, PyStr(summaries), NL, NL>>)

\* gather filling its result list in the order the calls complete
gather_store_completion_order(res, i, text) ==
    LET k == CHOOSE j \in DOMAIN res :
                 ~res[j].done /\ \A m \in DOMAIN res : ~res[m].done => j <= m
    IN  [res EXCEPT ![k] = [done |-> TRUE, text |-> text]]

\* asyncio.gather: the result of the i-th awaitable is the i-th result
gather_store(res, i, text) == [res EXCEPT ![i] = [done |-> TRUE, text |-> text]]

\* gather(..., return_exceptions=True): returns once every call has ended
gather_done_return_exceptions(t) == \A i \in DOMAIN t : t[i] \in {"done", "failed"}

\* asyncio.gather returns once every awaitable has returned
gather_done(t) == \A i \in DOMAIN t : t[i] = "done"

\* an exception raised inside main's try block: line 286 catches
\* UnicodeDecodeError, anything else leaves main
RaiseInTry(kind) ==
    /\ pc' = IF kind = "UnicodeDecodeError" THEN "except" ELSE "crashed"
    /\ escaped' = IF kind = "UnicodeDecodeError" THEN escaped ELSE kind

\* lines 262-274, 282
GetDiff ==
    /\ pc = "get_diff"
    /\ \E o \in RunOutputs : diff' = Strip(o)
    /\ pc' = "summarize_changes"
    /\ UNCHANGED <<dry_run, cutoff, requests>>
    /\ UNCHANGED packer_vars
    /\ UNCHANGED fanout_vars
    /\ UNCHANGED main_vars

\* line 272: text=True decodes git's output, which a binary file breaks
GetDiffDecodeError ==
    /\ pc = "get_diff"
    /\ RaiseInTry("UnicodeDecodeError")
    /\ UNCHANGED <<dry_run, diff, cutoff, requests>>
    /\ UNCHANGED packer_vars
    /\ UNCHANGED fanout_vars
    /\ UNCHANGED <<code_change_summaries, commit_message, commit_body, output, caught>>

\* line 273: git failed
GetDiffProcessError ==
    /\ pc = "get_diff"
    /\ RaiseInTry("CalledProcessError")
    /\ UNCHANGED <<dry_run, diff, cutoff, requests>>
    /\ UNCHANGED packer_vars
    /\ UNCHANGED fanout_vars
    /\ UNCHANGED <<code_change_summaries, commit_message, commit_body, output, caught>>

\* lines 205-207, 283
SummarizeChangesEmpty ==
    /\ pc = "summarize_changes"
    /\ diff = Empty
    /\ code_change_summaries' = StrValue(FIX_WHITESPACE)
    /\ pc' = "generate_commit_message"
    /\ UNCHANGED <<dry_run, diff, cutoff, requests>>
    /\ UNCHANGED packer_vars
    /\ UNCHANGED fanout_vars
    /\ UNCHANGED <<commit_message, commit_body, output, escaped, caught>>

\* line 209: assemble_diffs(parse_diff(diff), PROMPT_CUTOFF)
SummarizeChangesSegment ==
    /\ pc = "summarize_changes"
    /\ diff # Empty
    /\ cutoff' = PROMPT_CUTOFF
    /\ pc' = "parse"
    /\ UNCHANGED <<dry_run, diff, requests>>
    /\ UNCHANGED packer_vars
    /\ UNCHANGED fanout_vars
    /\ UNCHANGED main_vars

\* lines 211-213: one summarize_diff coroutine per block, handed to gather
Gather ==
    /\ pc = "packed"
    /\ tasks' = [i \in DOMAIN assembled_diffs |-> "created"]
    /\ results' = [i \in DOMAIN assembled_diffs |-> [done |-> FALSE, text |-> Empty]]
    /\ served' = [i \in DOMAIN assembled_diffs |-> Empty]
    /\ pc' = "gather"
    /\ UNCHANGED <<dry_run, diff, cutoff, requests, raised, out_of_order>>
    /\ UNCHANGED packer_vars
    /\ UNCHANGED main_vars

\* the event loop starts the coroutines in the order gather was given them
NextToStart(i) ==
    /\ pc = "gather"
    /\ tasks[i] = "created"
    /\ \A j \in 1..(i - 1) : tasks[j] # "created"

\* the first exception of the batch is the one gather raises
FirstRaised(kind) == IF raised = "none" THEN kind ELSE raised

\* line 218: assert diff fails
SummarizeDiffAssert(i) ==
    /\ NextToStart(i)
    /\ assembled_diffs[i] = Empty
    /\ tasks' = [tasks EXCEPT ![i] = "failed"]
    /\ raised' = FirstRaised("AssertionError")
    /\ UNCHANGED <<pc, dry_run, diff, cutoff, requests, results, served, out_of_order>>
    /\ UNCHANGED packer_vars
    /\ UNCHANGED main_vars

\* lines 218-253: the block's request goes out (the few-shot messages that
\* precede the block's message are files of the installation, not modelled)
SummarizeDiffRequest(i) ==
    /\ NextToStart(i)
    /\ assembled_diffs[i] # Empty
    /\ requests' = Append(requests,
                          [kind  |-> "block",
                           block |-> i,
                           text  |-> CatAll(<<DIFF_PROMPT, NL, assembled_diffs[i]>>)])
    /\ tasks' = [tasks EXCEPT ![i] = "awaiting"]
    /\ UNCHANGED <<pc, dry_run, diff, cutoff, results, raised, served, out_of_order>>
    /\ UNCHANGED packer_vars
    /\ UNCHANGED main_vars

\* lines 255-257: the block's call completes, in any order
SummarizeDiffReturn(i) ==
    /\ pc = "gather"
    /\ tasks[i] = "awaiting"
    /\ \E content \in Contents :
          /\ results' = gather_store(results, i, get_text(content))
          /\ served' = [served EXCEPT ![i] = get_text(content)]
    /\ tasks' = [tasks EXCEPT ![i] = "done"]
    /\ out_of_order' = (out_of_order \/ \E j \in 1..(i - 1) : tasks[j] = "awaiting")
    /\ UNCHANGED <<pc, dry_run, diff, cutoff, requests, raised>>
    /\ UNCHANGED packer_vars
    /\ UNCHANGED main_vars

\* line 248: the block's call raises
SummarizeDiffError(i) ==
    /\ pc = "gather"
    /\ tasks[i] = "awaiting"
    /\ \E kind \in CallErrors : raised' = FirstRaised(kind)
    /\ tasks' = [tasks EXCEPT ![i] = "failed"]
    /\ UNCHANGED <<pc, dry_run, diff, cutoff, requests, results, served, out_of_order>>
    /\ UNCHANGED packer_vars
    /\ UNCHANGED main_vars

\* line 211: gather raises the first exception into summarize_changes, which
\* lets it through to main; every coroutine has been started by then
GatherRaise ==
    /\ pc = "gather"
    /\ raised # "none"
    /\ \A i \in DOMAIN tasks : tasks[i] # "created"
    /\ RaiseInTry(raised)
    /\ UNCHANGED <<dry_run, diff, cutoff, requests>>
    /\ UNCHANGED packer_vars
    /\ UNCHANGED fanout_vars
    /\ UNCHANGED <<code_change_summaries, commit_message, commit_body, output, caught>>

\* lines 211-214, 283
GatherReturn ==
    /\ pc = "gather"
    /\ gather_done(tasks)
    /\ code_change_summaries' = ListValue([i \in DOMAIN results |-> results[i].text])
    /\ pc' = "generate_commit_message"
    /\ UNCHANGED <<dry_run, diff, cutoff, requests>>
    /\ UNCHANGED packer_vars
    /\ UNCHANGED fanout_vars
    /\ UNCHANGED <<commit_message, commit_body, output, escaped, caught>>

\* lines 192, 196: assert summaries fails on the joined text
TitleAssert ==
    /\ pc = "generate_commit_message"
    /\ JoinLines(code_change_summaries) = Empty
    /\ RaiseInTry("AssertionError")
    /\ UNCHANGED <<dry_run, diff, cutoff, requests>>
    /\ UNCHANGED packer_vars
    /\ UNCHANGED fanout_vars
    /\ UNCHANGED <<code_change_summaries, commit_message, commit_body, output, caught>>

\* lines 192-197, 137-151: the title request goes out
TitleRequest ==
    /\ pc = "generate_commit_message"
    /\ JoinLines(code_change_summaries) # Empty
    /\ requests' = Append(requests,
                          [kind  |-> "title",
                           block |-> 0,
                           text  |-> complete_prompt(
                                         TitlePrompt(JoinLines(code_change_summaries)))])
    /\ pc' = "await_title"
    /\ UNCHANGED <<dry_run, diff, cutoff>>
    /\ UNCHANGED packer_vars
    /\ UNCHANGED fanout_vars
    /\ UNCHANGED main_vars

\* lines 154, 198, 284
TitleReturn ==
    /\ pc = "await_title"
    /\ \E content \in Contents : commit_message' = StrValue(get_text(content))
    /\ pc' = "generate_commit_body"
    /\ UNCHANGED <<dry_run, diff, cutoff, requests>>
    /\ UNCHANGED packer_vars
    /\ UNCHANGED fanout_vars
    /\ UNCHANGED <<code_change_summaries, commit_body, output, escaped, caught>>

\* line 146: the title call raises
TitleError ==
    /\ pc = "await_title"
    /\ \E kind \in CallErrors : RaiseInTry(kind)
    /\ UNCHANGED <<dry_run, diff, cutoff, requests>>
    /\ UNCHANGED packer_vars
    /\ UNCHANGED fanout_vars
    /\ UNCHANGED <<code_change_summaries, commit_message, commit_body, output, caught>>

\* lines 179-185, 137-151: assert summaries, then the body request goes out
BodyRequest ==
    /\ pc = "generate_commit_body"
    /\ IF Truthy(code_change_summaries)
       THEN /\ requests' = Append(requests,
                                  [kind  |-> "body",
                                   block |-> 0,
                                   text  |-> complete_prompt(
                                                 BodyPrompt(commit_message.text,
                                                            code_change_summaries))])
            /\ pc' = "await_body"
            /\ UNCHANGED escaped
       ELSE /\ RaiseInTry("AssertionError")
            /\ UNCHANGED requests
    /\ UNCHANGED <<dry_run, diff, cutoff>>
    /\ UNCHANGED packer_vars
    /\ UNCHANGED fanout_vars
    /\ UNCHANGED <<code_change_summaries, commit_message, commit_body, output, caught>>

\* lines 154, 185, 285
BodyReturn ==
    /\ pc = "await_body"
    /\ \E content \in Contents : commit_body' = StrValue(get_text(content))
    /\ pc' = "output"
    /\ UNCHANGED <<dry_run, diff, cutoff, requests>>
    /\ UNCHANGED packer_vars
    /\ UNCHANGED fanout_vars
    /\ UNCHANGED <<code_change_summaries, commit_message, output, escaped, caught>>

\* line 146: the body call raises
BodyError ==
    /\ pc = "await_body"
    /\ \E kind \in CallErrors : RaiseInTry(kind)
    /\ UNCHANGED <<dry_run, diff, cutoff, requests>>
    /\ UNCHANGED packer_vars
    /\ UNCHANGED fanout_vars
    /\ UNCHANGED <<code_change_summaries, commit_message, commit_body, output, caught>>

\* lines 286-291: the except clause
HandleDecodeError ==
    /\ pc = "except"
    /\ commit_message' = StrValue(BINARY_MESSAGE)
    /\ caught' = TRUE
    /\ pc' = "output"
    /\ UNCHANGED <<dry_run, diff, cutoff, requests>>
    /\ UNCHANGED packer_vars
    /\ UNCHANGED fanout_vars
    /\ UNCHANGED <<code_change_summaries, commit_body, output, escaped>>

\* lines 293-294
PrintMessage ==
    /\ pc = "output"
    /\ dry_run
    /\ output' = [kind |-> "printed", message |-> commit_message.text, body |-> Empty]
    /\ pc' = "done"
    /\ UNCHANGED <<dry_run, diff, cutoff, requests>>
    /\ UNCHANGED packer_vars
    /\ UNCHANGED fanout_vars
    /\ UNCHANGED <<code_change_summaries, commit_message, commit_body, escaped, caught>>

\* lines 295-296, 161-172
Commit ==
    /\ pc = "output"
    /\ ~dry_run
    /\ commit_body.bound
    /\ output' = [kind    |-> "committed",
                  message |-> commit_message.text,
                  body    |-> commit_body.text]
    /\ pc' = "done"
    /\ UNCHANGED <<dry_run, diff, cutoff, requests>>
    /\ UNCHANGED packer_vars
    /\ UNCHANGED fanout_vars
    /\ UNCHANGED <<code_change_summaries, commit_message, commit_body, escaped, caught>>

\* line 296: commit_body is read before any assignment reached it
CommitUnbound ==
    /\ pc = "output"
    /\ ~dry_run
    /\ ~commit_body.bound
    /\ escaped' = "UnboundLocalError"
    /\ pc' = "crashed"
    /\ UNCHANGED <<dry_run, diff, cutoff, requests>>
    /\ UNCHANGED packer_vars
    /\ UNCHANGED fanout_vars
    /\ UNCHANGED <<code_change_summaries, commit_message, commit_body, output, caught>>

Init ==
    /\ pc = "get_diff"
    /\ dry_run \in BOOLEAN
    /\ diff = Empty
    /\ cutoff = PROMPT_CUTOFF
    /\ InitLocals

Next ==
    \/ GetDiff
    \/ GetDiffDecodeError
    \/ GetDiffProcessError
    \/ SummarizeChangesEmpty
    \/ SummarizeChangesSegment
    \/ ParseDiff
    \/ AddHead
    \/ AddHeadAndChunk
    \/ AddChunk
    \/ NextFile
    \/ ReturnBlocks
    \/ Gather
    \/ \E i \in DOMAIN tasks : SummarizeDiffAssert(i)
    \/ \E i \in DOMAIN tasks : SummarizeDiffRequest(i)
    \/ \E i \in DOMAIN tasks : SummarizeDiffReturn(i)
    \/ \E i \in DOMAIN tasks : SummarizeDiffError(i)
    \/ GatherRaise
    \/ GatherReturn
    \/ TitleAssert
    \/ TitleRequest
    \/ TitleReturn
    \/ TitleError
    \/ BodyRequest
    \/ BodyReturn
    \/ BodyError
    \/ HandleDecodeError
    \/ PrintMessage
    \/ Commit
    \/ CommitUnbound

\* main, from get_diff to its exit
Spec == Init /\ [][Next]_vars

(* --------------------- reading a text back as a diff ------------------ *)

RECURSIVE Flatten(_)
Flatten(seqs) == IF seqs = <<>> THEN <<>> ELSE Head(seqs) \o Flatten(Tail(seqs))

\* the multiset of the elements of a sequence
BagOfSeq(s) == [x \in Range(s) |-> Cardinality({i \in DOMAIN s : s[i] = x})]

\* the file sections of a text, and the hunks of each in the order of the
\* text: a hunk runs from a "\n@@" to the next one or to the section's end
ScanSections(text) ==
    LET split == Split(text, FILE_MARKER)
        sections == <<split[1]>>
            \o [i \in 1..(Len(split) - 1) |-> Cat(FILE_MARKER, split[i + 1])]
    IN  [f \in 1..Len(sections) |->
            LET parts == Split(sections[f], HUNK_MARKER) IN
            [head  |-> parts[1],
             hunks |-> [j \in 1..(Len(parts) - 1) |-> Cat(HUNK_MARKER, parts[j + 1])]]]

\* the hunks of a text, in the order of the text
ScanHunks(text) ==
    LET secs == ScanSections(text) IN Flatten([f \in 1..Len(secs) |-> secs[f].hunks])

\* t without its last character
DropLast(t) == Take(t, TLen(t) - 1)

\* the hunks of a block with the separators add_chunk inserted taken off: a
\* "\n" follows every hunk of the block but one that ends the block
RecoveredHunks(block) ==
    LET secs == ScanSections(block) IN
    Flatten([f \in 1..Len(secs) |->
                [j \in 1..Len(secs[f].hunks) |->
                    IF f = Len(secs) /\ j = Len(secs[f].hunks)
                    THEN secs[f].hunks[j]
                    ELSE DropLast(secs[f].hunks[j])]])

\* the hunks of all the blocks, in the order of the blocks
AllRecoveredHunks ==
    Flatten([i \in 1..Len(assembled_diffs) |-> RecoveredHunks(assembled_diffs[i])])

\* section s of a block is section F of the input: F's head, behind a
\* separator or not, and hunks of F, a separator behind them or not
SectionOf(s, F) ==
    /\ s.head \in {F.head, Cat(NL, F.head)}
    /\ \A j \in DOMAIN s.hunks :
          \E m \in DOMAIN F.hunks : s.hunks[j] \in {F.hunks[m], Cat(F.hunks[m], NL)}

\* the sections of a block that hold hunks
HunkSections(block) ==
    LET secs == ScanSections(block) IN
    {secs[f] : f \in {g \in DOMAIN secs : secs[g].hunks # <<>>}}

InputSections == Range(ScanSections(diff))

(* ------------------------ C1: the size bound -------------------------- *)

\* C1: every block is at most cutoff characters long, except a block that
\* holds exactly one hunk whose own length exceeds cutoff.
C1_SizeBound ==
    \A i \in DOMAIN assembled_diffs :
        LET b == assembled_diffs[i]
            hs == RecoveredHunks(b)
        IN  \/ TLen(b) <= cutoff
            \/ Len(hs) = 1 /\ TLen(hs[1]) > cutoff

(* --------------------- C2: the order hunks are taken ------------------ *)

ExampleHunks ==
    << << <<"x", 3997>> >>,
       << <<"y", 3997>> >>,
       << <<"z", 1996>>, <<"\n", 1>>, <<"z", 2000>> >> >>

\* one file, a head of 100 characters and three hunks of 4,000
ExampleDiff == Strip(GitOutput(<<[fill |-> HeadFill(1), hunks |-> ExampleHunks]>>))

ExampleHead == Cat(DIFF_WORD, HeadFill(1))

ExampleHunk(j) == Cat(HUNK_MARKER, ExampleHunks[j])

\* the hunks of the file section the packer is at, in the order of the text
TextHunks == ScanSections(diff)[fi].hunks

AtFile == pc \in {"file", "hunks"} /\ fi \in DOMAIN parsed_diffs

\* C2 (amended): the packer takes the hunks of a file section in the order of
\* the text, the one nearest the START of the section first (h1, then h2, ...),
\* and the blocks hold the hunks in that order; for one file with a head of 100
\* characters, three hunks of 4,000 and cutoff 10000 the output is
\* block 1 = "\n" + head + hunk1 + "\n" + hunk2 and block 2 = head + hunk3.
C2_TextOrder ==
    /\ AtFile =>
          LET hunks == TextHunks
              n == Len(hunks)
              left == Len(parsed_diffs[fi].chunks)
          IN  parsed_diffs[fi].chunks = Reverse(SubSeq(hunks, n - left + 1, n))
    /\ pc = "packed" => AllRecoveredHunks = ScanHunks(diff)
    /\ (pc = "packed" /\ diff = ExampleDiff /\ cutoff = PROMPT_CUTOFF) =>
          assembled_diffs =
              << CatAll(<<NL, ExampleHead, ExampleHunk(1), NL, ExampleHunk(2)>>),
                 Cat(ExampleHead, ExampleHunk(3)) >>

\* C2's case: the example has been packed
C2_Witness == pc = "packed" /\ diff = ExampleDiff /\ cutoff = PROMPT_CUTOFF

\* C2 as stated: the hunk nearest the END of the section is taken first, so
\* the hunks still to take are the first ones of the text; the example gives
\* block 1 = head + hunk3 + hunk2 and block 2 = head + hunk1.
C2_EndFirst ==
    /\ AtFile =>
          BagOfSeq(parsed_diffs[fi].chunks)
              = BagOfSeq(SubSeq(TextHunks, 1, Len(parsed_diffs[fi].chunks)))
    /\ (pc = "packed" /\ diff = ExampleDiff /\ cutoff = PROMPT_CUTOFF) =>
          assembled_diffs =
              << CatAll(<<ExampleHead, ExampleHunk(3), ExampleHunk(2)>>),
                 Cat(ExampleHead, ExampleHunk(1)) >>

(* ----------------------------- C6: coverage --------------------------- *)

\* C6: the multiset of the hunks found in the returned blocks, the inserted
\* separators and the repeated heads taken off, is the multiset of the hunks
\* of the input: none is dropped, cut, split over two blocks or emitted twice.
C6_Coverage ==
    pc = "packed" => BagOfSeq(AllRecoveredHunks) = BagOfSeq(ScanHunks(diff))

\* C6's case: three blocks or more were returned for an input with a hunk that
\* is longer than the cutoff and a hunk that occurs twice
C6_Witness ==
    /\ pc = "packed"
    /\ Len(assembled_diffs) >= 3
    /\ \E h \in Range(ScanHunks(diff)) : TLen(h) > cutoff
    /\ \E h \in Range(ScanHunks(diff)) : BagOfSeq(ScanHunks(diff))[h] >= 2

(* -------------------------- C8: self-description ---------------------- *)

\* C8 (amended): in every block, the hunks of a file F stand behind the head
\* of F: each section of the block that holds hunks is F's head (behind the
\* "\n" separator when the block did not start with it) followed by hunks of
\* F; and every block but the first starts with the head of a file, so a
\* block started because a later hunk of F did not fit is F's head followed
\* by that hunk.
C8_HeadBeforeHunks ==
    LET input == InputSections IN
    /\ \A i \in DOMAIN assembled_diffs :
          \A s \in HunkSections(assembled_diffs[i]) :
              \E F \in input : SectionOf(s, F)
    /\ \A i \in 2..Len(assembled_diffs) :
          \E F \in input : StartsWith(assembled_diffs[i], F.head)

\* C8's case: a returned block holds hunks of two files, and the hunks of one
\* file are spread over two blocks
C8_Witness ==
    /\ pc = "packed"
    /\ \E i \in DOMAIN assembled_diffs : Cardinality(HunkSections(assembled_diffs[i])) >= 2
    /\ \E i, j \in DOMAIN assembled_diffs :
          /\ i < j
          /\ \E F \in InputSections :
                /\ \E s \in HunkSections(assembled_diffs[i]) : SectionOf(s, F)
                /\ \E s \in HunkSections(assembled_diffs[j]) : SectionOf(s, F)

\* C8 as stated: the head of F is a prefix of every block that holds hunks
\* of F.
C8_HeadIsPrefix ==
    \A i \in DOMAIN assembled_diffs :
        \A s \in HunkSections(assembled_diffs[i]) :
            \A F \in InputSections :
                SectionOf(s, F) => StartsWith(assembled_diffs[i], F.head)

(* ----------------------- C3: the truncation contract ------------------ *)

\* C3: every text submitted to the completion service, by a block's request,
\* the title request or the body request, is at most PROMPT_CUTOFF + 100
\* characters long.
C3_Truncated ==
    \A k \in DOMAIN requests : TLen(requests[k].text) <= PROMPT_CUTOFF + 100

(* ---------------------------- C4: the empty case ---------------------- *)

\* summarize_changes took its empty-diff return
EmptyCase == code_change_summaries = StrValue(FIX_WHITESPACE)

\* C4: for the empty diff no block is produced, no call to the completion
\* service is issued in the whole run, and the run's result is the placeholder.
C4_EmptyCase ==
    EmptyCase =>
        /\ assembled_diffs = <<>>
        /\ requests = <<>>
        /\ output.kind # "none" => output.message = FIX_WHITESPACE

(* --------------------- C5: the decoding failure handled --------------- *)

\* C5: once main has caught a UnicodeDecodeError the commit message is the
\* fixed placeholder and no exception leaves main, with and without --dry-run.
C5_DecodeHandled ==
    caught =>
        /\ commit_message = StrValue(BINARY_MESSAGE)
        /\ escaped = "none"

(* ------------------- C7: results in the order of the blocks ----------- *)

TitleRequests == {k \in DOMAIN requests : requests[k].kind = "title"}

\* C7: whatever the order the per-block calls completed in, the i-th summary
\* summarize_changes returns is the one the i-th block's call returned, and
\* the title request lists the summaries joined by "\n" in the order of the
\* blocks.
C7_BlockOrder ==
    code_change_summaries.kind = "list" =>
        /\ code_change_summaries.list = served
        /\ \A k \in TitleRequests :
              requests[k].text = complete_prompt(TitlePrompt(Join(NL, served)))

\* C7's case: the calls of two blocks with different summaries completed
\* against the order of the blocks, and the title request has gone out
C7_Witness ==
    /\ out_of_order
    /\ TitleRequests # {}
    /\ \E i, j \in DOMAIN served : served[i] # served[j]

(* ------------------------ C9: all-or-nothing fan-out ------------------ *)

SomeBlockFailed == \E i \in DOMAIN tasks : tasks[i] = "failed"

\* C9: once a per-block call has failed, summarize_changes returns nothing,
\* main goes no further than the exception's way out, no title or body request
\* is issued, no block is requested twice, and no message made from the
\* summaries of the other blocks is printed or committed.
C9_AllOrNothing ==
    SomeBlockFailed =>
        /\ ~code_change_summaries.bound
        /\ pc \in {"gather", "except", "output", "done", "crashed"}
        /\ \A k \in DOMAIN requests : requests[k].kind = "block"
        /\ \A k, m \in DOMAIN requests :
              requests[k].block = requests[m].block => k = m
        /\ output.kind # "none" => output.message = BINARY_MESSAGE

\* C9's case: a block's call failed after another block's call had returned
\* its summary, and the exception has left main
C9_Witness ==
    /\ SomeBlockFailed
    /\ \E i \in DOMAIN tasks : tasks[i] = "done"
    /\ pc = "crashed"

(* ------------------------ C10: no empty block ------------------------- *)

\* C10: every block assemble_diffs returns for a non-empty diff, with cutoff
\* PROMPT_CUTOFF, is a non-empty string, so that `assert diff` holds in every
\* summarize_diff.
C10_NoEmptyBlock ==
    /\ pc = "packed" => \A i \in DOMAIN assembled_diffs : assembled_diffs[i] # Empty
    /\ raised # "AssertionError"

====
